---- MODULE Spec2Model ----
(***************************************************************************)
(* Document ingestion and retrieval-augmented answering of the call-center *)
(* backend: VectorStore.store_document / search_similar_chunks,            *)
(* RAGService.get_answer and the /api/documents/upload handler.            *)
(*                                                                         *)
(* The backing store (Supabase tables documents and document_chunks) is    *)
(* the shared state.  Every network call (table insert, rpc, select,       *)
(* embedding, generation) is one step that either succeeds or raises.      *)
(***************************************************************************)
EXTENDS Integers, Sequences, FiniteSets, TLC

\* ---------------------------------------------------------------- bounds
MaxStores == 2
MaxChunks == 2
MaxVec == 2
MaxUploads == 1
MaxMatch == 2
MaxWords == 4
MaxWordLen == 2
MaxChars == 3
MaxChunkSize == 4
MaxPages == 2
MaxSegments == 2
MaxCalls == 2
MaxFetches == 2
MaxResponseWords == 4

StoreCalls == 1..MaxStores
Uploads == 1..MaxUploads
\* an embedding vector, abstracted to a point on a line
Vec == 0..MaxVec
\* texts the generation model may reply with
ModelTexts == {"reply-a", "reply-b"}
\* match_count / max_chunks values a caller may pass (non-positive included)
MatchCounts == (-1)..MaxMatch

\* page_number of a chunk of a format without pages (None)
NoPage == 0
\* source_url of a document stored without an uploaded blob (None)
NoUrl == 0
\* metadata.total_pages is None
NoTotal == -1
\* limit=None of fetch_unprocessed_calls
NoLimit == 0
\* the default sentiment_score 3.0, in tenths
NeutralSentiment == 30
\* similarities are kept in tenths: 0.1 is 1, 1.0 is 10
DefaultThreshold == 1
\* match_threshold values a caller of search_similar_chunks may pass
Thresholds == {DefaultThreshold, 8}

VARIABLES
    documents,        \* table documents: row i has id i
    document_chunks,  \* table document_chunks, in insertion order
    st,               \* store_document calls
    em,               \* the DocumentProcessor.create_embeddings call
    up,               \* upload_document requests
    qa,               \* the search_similar_chunks / get_answer call
    ck,               \* a _create_chunks / create_chunks call
    pd,               \* a process_document call
    an,               \* a call of an LLM-backed analysis endpoint
    calls,            \* table calls: the processed flag of each call
    call_analytics,   \* table call_analytics, in insertion order
    pr,               \* the run_processor processes
    tr                \* a call of _process_response

vars == <<documents, document_chunks, st, em, up, qa, ck, pd, an, calls, call_analytics, pr, tr>>

\* ------------------------------------------------------------- helpers
Min(a, b) == IF a < b THEN a ELSE b

Abs(x) == IF x < 0 THEN -x ELSE x

\* the metadata title a caller gives its document
TitleOf(owner) == IF owner % 2 = 1 THEN "faq" ELSE "policy"

\* the vector the embedding provider returns for chunk i of a document
VecOf(owner, i) == (owner + i) % (MaxVec + 1)

\* len(embedding): the dimension of a vector; vectors 0 and 1 share one
\* dimension, the vectors after them have larger ones
Dimension(v) == 1 + (v \div 2)

VectorsOf(owner, m) == [i \in 1..m |-> VecOf(owner, i)]

\* the chunks of one document as a caller passes them: chunk i carries its
\* own content, no page and chunk_number i - 1
ChunkOf(kind, owner, i) ==
    [content |-> <<kind, owner, i>>, page_number |-> NoPage, chunk_number |-> i - 1]

ChunksOf(kind, owner, n) == [i \in 1..n |-> ChunkOf(kind, owner, i)]

\* rows of document_chunks tagged with document id d
ChunkRowsOf(d) == {i \in 1..Len(document_chunks) : document_chunks[i].document_id = d}

\* the outcome of a call that may raise
Raised == [ok |-> FALSE, value |-> <<>>]

Returned(v) == [ok |-> TRUE, value |-> v]

\* ------------------------------------------------------ store_document
\* zip(chunks, embeddings): pairs up to the shorter of the two lists
Zip(chunks, embeddings) ==
    [i \in 1..Min(Len(chunks), Len(embeddings)) |->
        [chunk |-> chunks[i], embedding |-> embeddings[i]]]

\* chunks_data tagged with the id of the newest document row instead of
\* the id the call's own insert returned
ChunksDataNewestId(document_id, chunks, embeddings) ==
    LET z == Zip(chunks, embeddings)
    IN  [i \in 1..Len(z) |->
            [document_id  |-> Len(documents),
             content      |-> z[i].chunk.content,
             embedding    |-> z[i].embedding,
             page_number  |-> z[i].chunk.page_number,
             chunk_number |-> z[i].chunk.chunk_number]]

\* chunks_data: one row per zipped pair, tagged with the generated id
ChunksData(document_id, chunks, embeddings) ==
    LET z == Zip(chunks, embeddings)
    IN  [i \in 1..Len(z) |->
            [document_id  |-> document_id,
             content      |-> z[i].chunk.content,
             embedding    |-> z[i].embedding,
             page_number  |-> z[i].chunk.page_number,
             chunk_number |-> z[i].chunk.chunk_number]]

\* the row the documents insert creates; the store hands out the id
DocumentRow(id, title, source_url) ==
    [id |-> id, title |-> title, source_url |-> source_url]

IdleStore ==
    [pc |-> "idle", chunks |-> <<>>, embeddings |-> <<>>, document_id |-> 0]

\* self.supabase.table('documents').insert({...}).execute(), then
\* document_id = doc_response.data[0]['id']
StoreInsertDocument(c) ==
    /\ st[c].pc = "idle"
    /\ \E n \in 0..MaxChunks, m \in 0..MaxChunks, ok \in BOOLEAN :
         LET id == Len(documents) + 1
             call == [pc |-> "doc_inserted", chunks |-> ChunksOf("direct", c, n),
                      embeddings |-> VectorsOf(c, m), document_id |-> id]
         IN  IF ok
             THEN /\ documents' = Append(documents, DocumentRow(id, TitleOf(c), NoUrl))
                  /\ st' = [st EXCEPT ![c] = call]
             ELSE /\ documents' = documents
                  /\ st' = [st EXCEPT ![c] =
                              [call EXCEPT !.pc = "raised", !.document_id = 0]]
    /\ UNCHANGED <<document_chunks, em, up, qa, ck, pd, an, calls, call_analytics, pr, tr>>

\* building chunks_data and
\* self.supabase.table('document_chunks').insert(chunks_data).execute()
StoreInsertChunks(c) ==
    /\ st[c].pc = "doc_inserted"
    /\ \E ok \in BOOLEAN :
         IF ok
         THEN /\ document_chunks' = document_chunks \o
                    ChunksData(st[c].document_id, st[c].chunks, st[c].embeddings)
              /\ st' = [st EXCEPT ![c].pc = "returned"]
         ELSE /\ document_chunks' = document_chunks
              /\ st' = [st EXCEPT ![c].pc = "raised"]
    /\ UNCHANGED <<documents, em, up, qa, ck, pd, an, calls, call_analytics, pr, tr>>

\* --------------------------------- DocumentProcessor.create_embeddings
\* model="text-embedding-3-small" of create_embeddings
IngestionEmbeddingModel == "text-embedding-3-small"

IdleEmbed ==
    [pc |-> "idle", chunks |-> <<>>, embeddings |-> <<>>, result |-> Raised,
     model |-> "none"]

EmbedBegin ==
    /\ em.pc = "idle"
    /\ \E n \in 0..MaxChunks :
         em' = [pc |-> "loop", chunks |-> ChunksOf("embed", 1, n),
                embeddings |-> <<>>, result |-> Raised, model |-> "none"]
    /\ UNCHANGED <<documents, document_chunks, st, up, qa, ck, pd, an, calls, call_analytics, pr, tr>>

\* one pass of `for chunk in chunks`: the provider call raises, or its
\* vector is appended
EmbedChunk ==
    /\ em.pc = "loop"
    /\ Len(em.embeddings) < Len(em.chunks)
    /\ \E ok \in BOOLEAN :
         IF ok
         THEN em' = [em EXCEPT !.embeddings = Append(@, VecOf(1, Len(em.embeddings) + 1)),
                               !.model = IngestionEmbeddingModel]
         ELSE em' = [em EXCEPT !.pc = "raised", !.result = Raised,
                               !.model = IngestionEmbeddingModel]
    /\ UNCHANGED <<documents, document_chunks, st, up, qa, ck, pd, an, calls, call_analytics, pr, tr>>

\* `return embeddings` once the loop is exhausted
EmbedReturn ==
    /\ em.pc = "loop"
    /\ Len(em.embeddings) = Len(em.chunks)
    /\ em' = [em EXCEPT !.pc = "returned", !.result = Returned(em.embeddings)]
    /\ UNCHANGED <<documents, document_chunks, st, up, qa, ck, pd, an, calls, call_analytics, pr, tr>>

\* create_embeddings as one call: failAt = 0 is a run without provider
\* failure, failAt = k a failure on chunk k
CreateEmbeddings(chunks, vectors, failAt) ==
    IF failAt \in 1..Len(chunks) THEN Raised ELSE Returned(vectors)

\* ------------------------------------- DocumentProcessor._create_chunks
\* chunk_size and chunk_overlap as a processor may be configured, with
\* 0 <= chunk_overlap < chunk_size
Configs ==
    {cfg \in [chunk_size : 1..MaxChunkSize, chunk_overlap : 0..(MaxChunkSize - 1)] :
        cfg.chunk_overlap < cfg.chunk_size}

\* a word of text.split(): where it stands in the document, and len(word)
Word(page, index, len) == [page |-> page, index |-> index, len |-> len]

\* the texts of up to MaxWords words on one page
WordTexts(page) ==
    UNION {{[i \in 1..n |-> Word(page, i, lens[i])] : lens \in [1..n -> 1..MaxWordLen]} :
              n \in 0..MaxWords}

\* sum(len(word) + 1 for word in words)
RECURSIVE SizeOf(_)
SizeOf(words) ==
    IF words = <<>> THEN 0 ELSE Head(words).len + 1 + SizeOf(Tail(words))

\* an overlap taken from the front of the chunk
OverlapWordsFront(current_chunk, chunk_overlap) ==
    SubSeq(current_chunk, 1, Min(chunk_overlap, Len(current_chunk)))

\* current_chunk[-self.chunk_overlap:], which is the whole list when the
\* overlap is 0 or not smaller than the list
OverlapWords(current_chunk, chunk_overlap) ==
    IF chunk_overlap = 0 \/ chunk_overlap >= Len(current_chunk)
    THEN current_chunk
    ELSE SubSeq(current_chunk, Len(current_chunk) - chunk_overlap + 1, Len(current_chunk))

\* DocumentChunk(content=" ".join(words), ...): the content is kept as the
\* words it joins, which content.split() gives back
DocumentChunk(content, source, page_number, chunk_number) ==
    [content |-> content, source |-> source, page_number |-> page_number,
     chunk_number |-> chunk_number]

\* a final chunk appended whether or not words remain
FinalChunksAlways(chunks, current_chunk, source, page_num, chunk_number) ==
    Append(chunks, DocumentChunk(current_chunk, source, page_num, chunk_number))

\* `if current_chunk:` and the final append
FinalChunks(chunks, current_chunk, source, page_num, chunk_number) ==
    IF current_chunk # <<>>
    THEN Append(chunks, DocumentChunk(current_chunk, source, page_num, chunk_number))
    ELSE chunks

\* `for word in words`, from word i on; s holds current_chunk, current_size,
\* chunk_number and chunks
RECURSIVE CreateChunksLoop(_, _, _, _, _, _)
CreateChunksLoop(cfg, source, page_num, words, i, s) ==
    IF i > Len(words)
    THEN FinalChunks(s.chunks, s.current_chunk, source, page_num, s.chunk_number)
    ELSE LET current_chunk == Append(s.current_chunk, words[i])
             current_size == s.current_size + words[i].len + 1
         IN  IF current_size >= cfg.chunk_size
             THEN LET overlap_words == OverlapWords(current_chunk, cfg.chunk_overlap)
                  IN  CreateChunksLoop(cfg, source, page_num, words, i + 1,
                        [current_chunk |-> overlap_words,
                         current_size  |-> SizeOf(overlap_words),
                         chunk_number  |-> s.chunk_number + 1,
                         chunks        |-> Append(s.chunks,
                              DocumentChunk(current_chunk, source, page_num,
                                            s.chunk_number))])
             ELSE CreateChunksLoop(cfg, source, page_num, words, i + 1,
                        [s EXCEPT !.current_chunk = current_chunk,
                                  !.current_size = current_size])

_create_chunks(cfg, words, source, page_num) ==
    CreateChunksLoop(cfg, source, page_num, words, 1,
        [current_chunk |-> <<>>, current_size |-> 0, chunk_number |-> 0,
         chunks |-> <<>>])

\* -------------------------------------- DocumentProcessor.create_chunks
\* characters of a text: "a" is one token of the encoding, "E" is a
\* character the encoding spells with two tokens, "?" is U+FFFD
Chars == {"a", "E"}

CharTexts == UNION {[1..n -> Chars] : n \in 0..MaxChars}

\* tokenizer.encode
RECURSIVE Encode(_)
Encode(text) ==
    IF text = <<>> THEN <<>>
    ELSE (CASE Head(text) = "E" -> <<"E1", "E2">>
            [] Head(text) = "?" -> <<"R">>
            [] OTHER -> <<"a">>) \o Encode(Tail(text))

\* tokenizer.decode: the bytes of the tokens decoded with errors="replace",
\* so half of a two-token character comes out as U+FFFD
RECURSIVE Decode(_)
Decode(tokens) ==
    IF tokens = <<>> THEN <<>>
    ELSE IF Len(tokens) >= 2 /\ tokens[1] = "E1" /\ tokens[2] = "E2"
         THEN <<"E">> \o Decode(Tail(Tail(tokens)))
         ELSE <<(IF Head(tokens) = "a" THEN "a" ELSE "?")>> \o Decode(Tail(tokens))

\* a window that runs to the end of the tokens
SliceToEnd(tokens, i, j) == SubSeq(tokens, i + 1, Len(tokens))

\* tokens[i:j], positions counted from 0
Slice(tokens, i, j) == SubSeq(tokens, i + 1, Min(j, Len(tokens)))

\* a window step that forgets the overlap
WindowStepNoOverlap(cfg) == cfg.chunk_size

\* self.chunk_size - self.chunk_overlap
WindowStep(cfg) == cfg.chunk_size - cfg.chunk_overlap

\* range(i, n, step)
RECURSIVE Range(_, _, _)
Range(i, n, step) == IF i >= n THEN <<>> ELSE <<i>> \o Range(i + step, n, step)

\* the token windows of create_chunks, one per element of the range
TokenWindows(cfg, tokens) ==
    LET starts == Range(0, Len(tokens), WindowStep(cfg))
    IN  [k \in 1..Len(starts) |-> Slice(tokens, starts[k], starts[k] + cfg.chunk_size)]

\* chunk_number=len(chunks) + 1 is the position of the window
create_chunks(cfg, text, source, page_number) ==
    LET windows == TokenWindows(cfg, Encode(text))
    IN  [k \in 1..Len(windows) |->
            DocumentChunk(Decode(windows[k]), source, page_number, k)]

\* ------------------------------------------------- a call of a chunker
IdleChunk ==
    [pc |-> "idle", fn |-> "none", cfg |-> [chunk_size |-> 1, chunk_overlap |-> 0],
     words |-> <<>>, text |-> <<>>, chunks |-> <<>>]

CallCreateChunksWords ==
    /\ ck.pc = "called"
    /\ ck.fn = "_create_chunks"
    /\ ck' = [ck EXCEPT !.pc = "returned",
                        !.chunks = _create_chunks(ck.cfg, ck.words, TitleOf(1), 1)]
    /\ UNCHANGED <<documents, document_chunks, st, em, up, qa, pd, an, calls, call_analytics, pr, tr>>

CallCreateChunksTokens ==
    /\ ck.pc = "called"
    /\ ck.fn = "create_chunks"
    /\ ck' = [ck EXCEPT !.pc = "returned",
                        !.chunks = create_chunks(ck.cfg, ck.text, TitleOf(1), 1)]
    /\ UNCHANGED <<documents, document_chunks, st, em, up, qa, pd, an, calls, call_analytics, pr, tr>>

\* ------------------------------------------------------ upload_document
\* the methods class DocumentProcessor defines
ProcessorMethods ==
    {"__init__", "process_document", "_process_pdf", "_process_docx", "_process_text",
     "_create_chunks", "extract_text_from_pdf", "create_chunks", "create_embeddings"}

\* the suffixes process_document dispatches on
Extensions == {".pdf", ".docx", ".doc", ".txt", ".md", ".csv"}

ProcessableExtensions == {".pdf", ".docx", ".txt", ".md"}

\* `await processor.get_embeddings(chunks)`: the attribute lookup raises
\* AttributeError when the class defines no such method
GetEmbeddings(chunks, vectors, failAt) ==
    IF "get_embeddings" \in ProcessorMethods
    THEN CreateEmbeddings(chunks, vectors, failAt)
    ELSE Raised

IdleUpload ==
    [pc |-> "idle", ext |-> ".pdf", chunks |-> <<>>, stage |-> "none",
     provider_failed |-> FALSE, embed_failed |-> FALSE, store_called |-> FALSE,
     document_id |-> 0, response |-> "none"]

FailUpload(r, step, provider) ==
    [r EXCEPT !.pc = "failed", !.stage = step, !.response = "HTTP 500",
              !.provider_failed = provider]

\* json.loads(metadata), DocumentMetadata(**...), the temp file and
\* document_uploader.upload_document: each may raise into the outer handler
UploadBegin(u) ==
    /\ up[u].pc = "idle"
    /\ \E ext \in Extensions, metadataOk \in BOOLEAN, uploadOk \in BOOLEAN :
         up' = [up EXCEPT ![u] =
                  IF ~metadataOk THEN FailUpload([@ EXCEPT !.ext = ext], "metadata", FALSE)
                  ELSE IF ~uploadOk THEN FailUpload([@ EXCEPT !.ext = ext], "upload", TRUE)
                  ELSE [@ EXCEPT !.ext = ext, !.pc = "uploaded", !.stage = "uploaded"]]
    /\ UNCHANGED <<documents, document_chunks, st, em, qa, ck, pd, an, calls, call_analytics, pr, tr>>

\* chunks = await processor.process_document(temp_file.name, metadata_obj)
UploadProcess(u) ==
    /\ up[u].pc = "uploaded"
    /\ \E extractOk \in BOOLEAN, n \in 0..MaxChunks :
         up' = [up EXCEPT ![u] =
                  IF up[u].ext \notin ProcessableExtensions
                  THEN FailUpload(@, "extract", FALSE)
                  ELSE IF ~extractOk THEN FailUpload(@, "extract", TRUE)
                  ELSE [@ EXCEPT !.pc = "chunked", !.stage = "chunked",
                                 !.chunks = ChunksOf("upload", u, n)]]
    /\ UNCHANGED <<documents, document_chunks, st, em, qa, ck, pd, an, calls, call_analytics, pr, tr>>

\* a handler that swallows the embedding error and goes on with no embeddings
EmbeddingsForStoreSwallowed(res) ==
    IF res.ok THEN [call |-> TRUE, embeddings |-> res.value]
    ELSE [call |-> TRUE, embeddings |-> <<>>]

\* the handler around get_embeddings re-raises as HTTPException, which the
\* outer handler turns into the 500 response: store_document is reached
\* only with the embeddings of a call that returned
EmbeddingsForStore(res) ==
    IF res.ok THEN [call |-> TRUE, embeddings |-> res.value]
    ELSE [call |-> FALSE, embeddings |-> <<>>]

\* get_embeddings, then store_document and the success response
UploadEmbedStore(u) ==
    /\ up[u].pc = "chunked"
    /\ \E failAt \in 0..Len(up[u].chunks), docOk \in BOOLEAN, chunksOk \in BOOLEAN :
         LET vectors == VectorsOf(u, Len(up[u].chunks))
             res == GetEmbeddings(up[u].chunks, vectors, failAt)
             arg == EmbeddingsForStore(res)
             id  == Len(documents) + 1
             provider == ("get_embeddings" \in ProcessorMethods) /\ ~res.ok
             was == [up[u] EXCEPT !.embed_failed = ~res.ok]
         IN  IF ~arg.call
             THEN /\ up' = [up EXCEPT ![u] = FailUpload(was, "embedding", provider)]
                  /\ UNCHANGED <<documents, document_chunks>>
             ELSE IF ~docOk
             THEN /\ up' = [up EXCEPT ![u] =
                              [FailUpload(was, "store", TRUE) EXCEPT !.store_called = TRUE]]
                  /\ UNCHANGED <<documents, document_chunks>>
             ELSE /\ documents' = Append(documents, DocumentRow(id, TitleOf(u), u))
                  /\ IF chunksOk
                     THEN /\ document_chunks' = document_chunks \o
                                ChunksData(id, up[u].chunks, arg.embeddings)
                          /\ up' = [up EXCEPT ![u] =
                                      [was EXCEPT !.pc = "success", !.stage = "stored",
                                                  !.store_called = TRUE,
                                                  !.document_id = id,
                                                  !.response = "success"]]
                     ELSE /\ document_chunks' = document_chunks
                          /\ up' = [up EXCEPT ![u] =
                                      [FailUpload(was, "store", TRUE) EXCEPT
                                          !.store_called = TRUE, !.document_id = id]]
    /\ UNCHANGED <<st, em, qa, ck, pd, an, calls, call_analytics, pr, tr>>

\* ---------------------------------------- the match_chunks procedure
\* similarity of a stored vector to the query vector, in tenths
Similarity(q, e) ==
    LET d == 10 - 5 * Abs(q - e) IN IF d < 0 THEN 0 ELSE d

\* the rows of the table with the similarity column added
Scored(table, q) ==
    {[id |-> i,
      document_id  |-> table[i].document_id,
      content      |-> table[i].content,
      page_number  |-> table[i].page_number,
      chunk_number |-> table[i].chunk_number,
      similarity   |-> Similarity(q, table[i].embedding)] : i \in 1..Len(table)}

\* a ranks before b: higher similarity, then smaller chunk_number, then
\* the document inserted first, then the row inserted first
Before(a, b) ==
    \/ a.similarity > b.similarity
    \/ /\ a.similarity = b.similarity
       /\ \/ a.chunk_number < b.chunk_number
          \/ /\ a.chunk_number = b.chunk_number
             /\ \/ a.document_id < b.document_id
                \/ a.document_id = b.document_id /\ a.id < b.id

RECURSIVE Ranked(_)
Ranked(S) ==
    IF S = {} THEN <<>>
    ELSE LET best == CHOOSE a \in S : \A b \in S \ {a} : Before(a, b)
         IN  <<best>> \o Ranked(S \ {best})

Take(s, n) == IF n <= 0 THEN <<>> ELSE SubSeq(s, 1, Min(n, Len(s)))

MatchChunks(table, q, match_threshold, match_count) ==
    Take(Ranked({r \in Scored(table, q) : r.similarity >= match_threshold}), match_count)

\* ------------------------------------------------ search_similar_chunks
\* `except Exception: return []`
SearchOnError == Returned(<<>>)

\* raising instead of returning when nothing matched
NoMatchRaises == Raised

\* `return []` when the rpc gave no rows
NoMatch == Returned(<<>>)

\* a join that hands the rows back in reverse of the order of the rpc
JoinReversed(rows, docs) ==
    [i \in 1..Len(rows) |->
        LET row == rows[Len(rows) + 1 - i]
            found == {k \in 1..Len(docs) : docs[k].id = row.document_id}
        IN  [id |-> row.id,
             document_id  |-> row.document_id,
             content      |-> row.content,
             page_number  |-> row.page_number,
             chunk_number |-> row.chunk_number,
             similarity   |-> row.similarity,
             has_source   |-> found # {},
             source       |-> IF found # {}
                              THEN docs[CHOOSE k \in found : TRUE].title
                              ELSE ""]]

\* a join that labels every row with the title of the first selected
\* document
JoinFirstTitle(rows, docs) ==
    [i \in 1..Len(rows) |->
        [id |-> rows[i].id,
         document_id  |-> rows[i].document_id,
         content      |-> rows[i].content,
         page_number  |-> rows[i].page_number,
         chunk_number |-> rows[i].chunk_number,
         similarity   |-> rows[i].similarity,
         has_source   |-> docs # <<>>,
         source       |-> IF docs # <<>> THEN docs[1].title ELSE ""]]

\* doc_map and the loop adding chunk['source'] and chunk['similarity']: a
\* chunk whose document is not among the selected rows is left without them
Join(rows, docs) ==
    [i \in 1..Len(rows) |->
        LET found == {k \in 1..Len(docs) : docs[k].id = rows[i].document_id}
        IN  [id |-> rows[i].id,
             document_id  |-> rows[i].document_id,
             content      |-> rows[i].content,
             page_number  |-> rows[i].page_number,
             chunk_number |-> rows[i].chunk_number,
             similarity   |-> rows[i].similarity,
             has_source   |-> found # {},
             source       |-> IF found # {}
                              THEN docs[CHOOSE k \in found : TRUE].title
                              ELSE ""]]

\* model="text-embedding-ada-002" of search_similar_chunks
QueryEmbeddingModel == "text-embedding-ada-002"

IdleQuery ==
    [pc |-> "idle", kind |-> "search", query |-> 0, embedding_model |-> "none",
     match_threshold |-> DefaultThreshold, match_count |-> 0,
     embed_calls |-> 0, rpc_calls |-> 0, select_calls |-> 0, gen_calls |-> 0,
     rows |-> <<>>, search |-> Raised, failed_call |-> "none",
     context |-> <<>>, model_text |-> "", gen_failed |-> FALSE,
     result |-> Raised, response |-> "none"]

\* a caller enters search_similar_chunks(query, match_threshold, match_count)
\* or get_answer(question, max_chunks), which passes match_count=max_chunks
\* and leaves match_threshold at its default
QueryBegin ==
    /\ qa.pc = "idle"
    /\ \E kind \in {"search", "answer"}, q \in Vec, count \in MatchCounts,
          threshold \in Thresholds :
         /\ kind = "answer" => threshold = DefaultThreshold
         /\ qa' = [qa EXCEPT !.pc = "embed", !.kind = kind, !.query = q,
                             !.match_threshold = threshold, !.match_count = count]
    /\ UNCHANGED <<documents, document_chunks, st, em, up, ck, pd, an, calls, call_analytics, pr, tr>>

\* self.openai_client.embeddings.create(input=query, ...)
SearchEmbed ==
    /\ qa.pc = "embed"
    /\ \E ok \in BOOLEAN :
         qa' = IF ok
               THEN [qa EXCEPT !.pc = "rpc", !.embed_calls = @ + 1,
                               !.embedding_model = QueryEmbeddingModel]
               ELSE [qa EXCEPT !.pc = "searched", !.embed_calls = @ + 1,
                               !.embedding_model = QueryEmbeddingModel,
                               !.failed_call = "embedding", !.search = SearchOnError]
    /\ UNCHANGED <<documents, document_chunks, st, em, up, ck, pd, an, calls, call_analytics, pr, tr>>

\* self.supabase.rpc('match_chunks', {...}).execute() and `if chunks:`
SearchRpc ==
    /\ qa.pc = "rpc"
    /\ \E ok \in BOOLEAN :
         LET rows == MatchChunks(document_chunks, qa.query, qa.match_threshold,
                                 qa.match_count)
         IN  qa' = IF ~ok
                   THEN [qa EXCEPT !.pc = "searched", !.rpc_calls = @ + 1,
                                   !.failed_call = "rpc", !.search = SearchOnError]
                   ELSE IF rows # <<>>
                   THEN [qa EXCEPT !.pc = "join", !.rpc_calls = @ + 1, !.rows = rows]
                   ELSE [qa EXCEPT !.pc = "searched", !.rpc_calls = @ + 1,
                                   !.search = NoMatch]
    /\ UNCHANGED <<documents, document_chunks, st, em, up, ck, pd, an, calls, call_analytics, pr, tr>>

\* the select on documents, the join and `return chunks`
SearchJoin ==
    /\ qa.pc = "join"
    /\ \E ok \in BOOLEAN :
         qa' = IF ok
               THEN [qa EXCEPT !.pc = "searched", !.select_calls = @ + 1,
                               !.search = Returned(Join(qa.rows, documents))]
               ELSE [qa EXCEPT !.pc = "searched", !.select_calls = @ + 1,
                               !.failed_call = "select", !.search = SearchOnError]
    /\ UNCHANGED <<documents, document_chunks, st, em, up, ck, pd, an, calls, call_analytics, pr, tr>>

\* ------------------------------------------------- RAGService.get_answer
\* the context block: one labelled entry per chunk, in the order returned
Context(chunks) ==
    [i \in 1..Len(chunks) |->
        [source |-> chunks[i].source, page |-> chunks[i].page_number,
         content |-> chunks[i].content]]

\* the sources listed in reverse of the order returned
SourcesReversed(chunks) ==
    [i \in 1..Len(chunks) |->
        [content    |-> chunks[Len(chunks) + 1 - i].content,
         source     |-> chunks[Len(chunks) + 1 - i].source,
         page       |-> chunks[Len(chunks) + 1 - i].page_number,
         similarity |-> chunks[Len(chunks) + 1 - i].similarity]]

\* the sources list of the returned dict
Sources(chunks) ==
    [i \in 1..Len(chunks) |->
        [content    |-> chunks[i].content,
         source     |-> chunks[i].source,
         page       |-> chunks[i].page_number,
         similarity |-> chunks[i].similarity]]

\* a guarded generation call that hands back the retrieved sources alone
GetAnswerResultPartial(chunks, gen) ==
    Returned([answer |-> IF gen.ok THEN gen.value ELSE "",
              sources |-> Sources(chunks)])

\* a canned reply in place of the model's text when nothing was retrieved
GetAnswerResultCanned(chunks, gen) ==
    IF ~gen.ok THEN Raised
    ELSE Returned([answer |-> IF chunks = <<>> THEN "no relevant information"
                              ELSE gen.value,
                   sources |-> Sources(chunks)])

\* what get_answer hands back given the generation call's outcome: the call
\* is not guarded, so its exception leaves the method and nothing is returned
GetAnswerResult(chunks, gen) ==
    IF gen.ok
    THEN Returned([answer |-> gen.value, sources |-> Sources(chunks)])
    ELSE Raised

\* get_answer after the search returned, as run by query_documents: build
\* the context, call the generation model, return the dict; an exception
\* becomes the HTTP 500 response carrying str(e)
AnswerGenerate ==
    /\ qa.pc = "searched"
    /\ qa.kind = "answer"
    /\ \E genOk \in BOOLEAN, text \in ModelTexts :
         LET chunks == qa.search.value
             keyError == \E i \in 1..Len(chunks) : ~chunks[i].has_source
             gen == IF genOk THEN Returned(text) ELSE Raised
             res == GetAnswerResult(chunks, gen)
         IN  qa' = IF ~qa.search.ok \/ keyError
                   THEN [qa EXCEPT !.pc = "raised", !.response = "HTTP 500"]
                   ELSE IF res.ok
                   THEN [qa EXCEPT !.pc = "done", !.gen_calls = @ + 1,
                                   !.context = Context(chunks),
                                   !.model_text = gen.value,
                                   !.gen_failed = ~genOk,
                                   !.result = res, !.response = "HTTP 200"]
                   ELSE [qa EXCEPT !.pc = "raised", !.gen_calls = @ + 1,
                                   !.context = Context(chunks),
                                   !.gen_failed = ~genOk,
                                   !.result = res, !.response = "HTTP 500"]
    /\ UNCHANGED <<documents, document_chunks, st, em, up, ck, pd, an, calls, call_analytics, pr, tr>>

\* ------------------------------------- DocumentProcessor.process_document
\* Path(file_path).suffix as uploaded
FileSuffixes == Extensions \cup {".PDF"}

\* str.lower() on the suffixes of FileSuffixes
Lower(suffix) == IF suffix = ".PDF" THEN ".pdf" ELSE suffix

\* a file is its parts (pages of a PDF, paragraphs of a .docx, lines of a
\* text file), each a number of words
FileParts == UNION {[1..n -> 0..MaxWords] : n \in 0..MaxPages}

\* the words of part `part` of a file
PartWords(part, n) == [i \in 1..n |-> Word(part, i, 1)]

\* the words of the parts joined with newlines, as text.split() sees them
RECURSIVE FileWords(_, _)
FileWords(parts, part) ==
    IF part > Len(parts) THEN <<>>
    ELSE PartWords(part, parts[part]) \o FileWords(parts, part + 1)

\* `for page_num in range(len(doc))`, from page_num on
RECURSIVE PdfPages(_, _, _, _)
PdfPages(cfg, title, parts, page_num) ==
    IF page_num >= Len(parts) THEN <<>>
    ELSE _create_chunks(cfg, PartWords(page_num + 1, parts[page_num + 1]),
                        title, page_num + 1)
            \o PdfPages(cfg, title, parts, page_num + 1)

_process_pdf(cfg, title, parts, total_pages) ==
    [chunks |-> PdfPages(cfg, title, parts, 0), total_pages |-> Len(parts)]

_process_docx(cfg, title, parts, total_pages) ==
    [chunks |-> _create_chunks(cfg, FileWords(parts, 1), title, NoPage),
     total_pages |-> Len(parts)]

_process_text(cfg, title, parts, total_pages) ==
    [chunks |-> _create_chunks(cfg, FileWords(parts, 1), title, NoPage),
     total_pages |-> total_pages]

IdleProcess ==
    [pc |-> "idle", suffix |-> ".txt", cfg |-> [chunk_size |-> 1, chunk_overlap |-> 0],
     parts |-> <<>>, total_pages |-> NoTotal, chunks |-> <<>>]

\* process_document returning what the extractor `out` returned
ProcessReturn(out) ==
    pd' = [pd EXCEPT !.pc = "returned", !.chunks = out.chunks,
                     !.total_pages = out.total_pages]

ProcessPdf ==
    /\ pd.pc = "called"
    /\ Lower(pd.suffix) = ".pdf"
    /\ ProcessReturn(_process_pdf(pd.cfg, TitleOf(1), pd.parts, pd.total_pages))
    /\ UNCHANGED <<documents, document_chunks, st, em, up, qa, ck, an, calls, call_analytics, pr, tr>>

ProcessDocx ==
    /\ pd.pc = "called"
    /\ Lower(pd.suffix) = ".docx"
    /\ ProcessReturn(_process_docx(pd.cfg, TitleOf(1), pd.parts, pd.total_pages))
    /\ UNCHANGED <<documents, document_chunks, st, em, up, qa, ck, an, calls, call_analytics, pr, tr>>

ProcessText ==
    /\ pd.pc = "called"
    /\ Lower(pd.suffix) \in {".txt", ".md"}
    /\ ProcessReturn(_process_text(pd.cfg, TitleOf(1), pd.parts, pd.total_pages))
    /\ UNCHANGED <<documents, document_chunks, st, em, up, qa, ck, an, calls, call_analytics, pr, tr>>

\* raise ValueError("Unsupported file type")
ProcessUnsupported ==
    /\ pd.pc = "called"
    /\ Lower(pd.suffix) \notin {".pdf", ".docx", ".txt", ".md"}
    /\ pd' = [pd EXCEPT !.pc = "raised"]
    /\ UNCHANGED <<documents, document_chunks, st, em, up, qa, ck, an, calls, call_analytics, pr, tr>>

\* ------------------------------------------- LLM-backed analysis endpoints
Endpoints == {"analyze_events", "summarize_conversation", "analyze_call_details"}

\* [segment.dict() for segment in request.segments]
SegmentsOf(n) == [i \in 1..n |-> <<"segment", i>>]

\* what a model's text is once the code fences are stripped: text that is
\* not JSON, no text at all, or a JSON value; an object is the set of the
\* keys it has
JsonKeys == {"events", "summary", "call_type"}

JsonBodies ==
    {[type |-> t, keys |-> {}] : t \in {"malformed", "empty", "null", "number", "array"}}
    \cup {[type |-> "object", keys |-> ks] : ks \in SUBSET JsonKeys}

\* message.content of the completion: the body, bare or inside ```json fences
ModelReplies == [fenced : BOOLEAN, body : JsonBodies]

\* .strip().replace('```json', '').replace('```', '').strip()
Clean(reply) == [reply EXCEPT !.fenced = FALSE]

\* json.loads: JSONDecodeError on fenced text, on text that is not JSON and
\* on the empty string
JsonLoads(reply) ==
    IF reply.fenced \/ reply.body.type \in {"malformed", "empty"}
    THEN Raised
    ELSE Returned(reply.body)

\* Python truth of a parsed value; the number and the array are non-zero
\* and non-empty
Truthy(value) ==
    CASE value.type = "null" -> FALSE
      [] value.type = "object" -> value.keys # {}
      [] OTHER -> TRUE

\* result[key] of a parsed object
FieldOf(value, key) == <<"value of", key>>

Http200(body) == [status |-> 200, body |-> body]

\* raise HTTPException(status_code=500, ...)
Http500 == [status |-> 500, body |-> [detail |-> "error"]]

\* a decode error that reaches the caller
OnDecodeErrorPropagates(endpoint, segments) == Http500

\* the `except json.JSONDecodeError` branch of each endpoint
OnDecodeError(endpoint, segments) ==
    CASE endpoint = "analyze_events" ->
            Http200([segments |-> segments, key_events |-> <<>>])
      [] endpoint = "summarize_conversation" ->
            Http200([segments |-> segments, summary |-> ""])
      [] OTHER ->
            Http200([sentiment_score |-> NeutralSentiment, topics |-> <<>>,
                     flags |-> <<>>, call_type |-> "other"])

\* the body of analyze_events after the completion returned `reply`
EventsResponse(segments, reply) ==
    LET parsed == JsonLoads(Clean(reply))
        result == parsed.value
    IN  IF ~parsed.ok THEN OnDecodeError("analyze_events", segments)
        ELSE IF ~Truthy(result)
             THEN Http200([segments |-> segments, key_events |-> <<>>])
        ELSE IF result.type = "number" THEN Http500
        ELSE IF result.type = "array" \/ "events" \notin result.keys
             THEN Http200([segments |-> segments, key_events |-> <<>>])
        ELSE Http200([segments |-> segments, key_events |-> FieldOf(result, "events")])

\* the body of summarize_conversation after the completion returned `reply`
SummaryResponse(segments, reply) ==
    LET parsed == JsonLoads(Clean(reply))
        result == parsed.value
    IN  IF ~parsed.ok THEN OnDecodeError("summarize_conversation", segments)
        ELSE IF result.type # "object" THEN Http500
        ELSE Http200([segments |-> segments,
                      summary |-> IF "summary" \in result.keys
                                  THEN FieldOf(result, "summary") ELSE ""])

\* the body of analyze_call_details after the completion returned `reply`
DetailsResponse(segments, reply) ==
    LET parsed == JsonLoads(Clean(reply))
    IN  IF ~parsed.ok THEN OnDecodeError("analyze_call_details", segments)
        ELSE Http200([result |-> parsed.value])

IdleAnalysis ==
    [pc |-> "idle", endpoint |-> "none", segments |-> <<>>, completion |-> "none",
     reply |-> [fenced |-> FALSE, body |-> [type |-> "empty", keys |-> {}]],
     response |-> Http500]

\* a request reaches one of the endpoints
AnalysisBegin ==
    /\ an.pc = "idle"
    /\ \E endpoint \in Endpoints, n \in 0..MaxSegments :
          an' = [an EXCEPT !.pc = "called", !.endpoint = endpoint,
                           !.segments = SegmentsOf(n)]
    /\ UNCHANGED <<documents, document_chunks, st, em, up, qa, ck, pd, calls, call_analytics, pr, tr>>

\* the handler ends: the completion raised or had no content (the outer
\* `except Exception` answers 500), or returned `reply` and the handler
\* answered `response`
AnalysisOutcome(completion, reply, response) ==
    an' = [an EXCEPT !.pc = "done", !.completion = completion, !.reply = reply,
                     !.response = IF completion = "returned" THEN response ELSE Http500]

Completions == {"raised", "no content", "returned"}

AnalyzeEvents ==
    /\ an.pc = "called"
    /\ an.endpoint = "analyze_events"
    /\ \E completion \in Completions, reply \in ModelReplies :
          /\ completion # "returned" => reply = IdleAnalysis.reply
          /\ AnalysisOutcome(completion, reply, EventsResponse(an.segments, reply))
    /\ UNCHANGED <<documents, document_chunks, st, em, up, qa, ck, pd, calls, call_analytics, pr, tr>>

SummarizeConversation ==
    /\ an.pc = "called"
    /\ an.endpoint = "summarize_conversation"
    /\ \E completion \in Completions, reply \in ModelReplies :
          /\ completion # "returned" => reply = IdleAnalysis.reply
          /\ AnalysisOutcome(completion, reply, SummaryResponse(an.segments, reply))
    /\ UNCHANGED <<documents, document_chunks, st, em, up, qa, ck, pd, calls, call_analytics, pr, tr>>

AnalyzeCallDetails ==
    /\ an.pc = "called"
    /\ an.endpoint = "analyze_call_details"
    /\ \E completion \in Completions, reply \in ModelReplies :
          /\ completion # "returned" => reply = IdleAnalysis.reply
          /\ AnalysisOutcome(completion, reply, DetailsResponse(an.segments, reply))
    /\ UNCHANGED <<documents, document_chunks, st, em, up, qa, ck, pd, calls, call_analytics, pr, tr>>

\* ------------------------------------------------------- CallProcessor
CallIds == 1..MaxCalls

\* the two ways run_processor runs: process_all_calls over the unprocessed
\* calls, or process_call for the one call given by --call-id; each is an
\* operating-system process of its own
Processors == {"batch", "single"}

Limits == {NoLimit} \cup (1..MaxCalls)

IdleCalls == [c \in CallIds |-> [processed |-> FALSE]]

IdleAnalytics == <<>>

IdleProcessor ==
    [pc |-> "idle", fetches |-> 0, limit |-> NoLimit, fetched |-> {}, queue |-> <<>>,
     existing |-> FALSE, results |-> [c \in CallIds |-> "none"]]

IdleProcessors == [p \in Processors |-> IdleProcessor]

\* the calls in `set`, in ascending order of id
RECURSIVE Ordered(_)
Ordered(set) ==
    IF set = {} THEN <<>>
    ELSE LET c == CHOOSE x \in set : \A y \in set : x <= y
         IN  <<c>> \o Ordered(set \ {c})

\* the unprocessed calls that have no analytics record
UnprocessedWithoutAnalytics ==
    {c \in CallIds :
        /\ ~calls[c].processed
        /\ \A i \in 1..Len(call_analytics) : call_analytics[i].call_id # c}

\* .eq('processed', False)
Unprocessed == {c \in CallIds : ~calls[c].processed}

\* the rows query.execute() may return: all of them without a limit, any
\* `limit` of them with one (the query has no ORDER BY)
FetchResults(limit) ==
    IF limit = NoLimit THEN {Unprocessed}
    ELSE {rows \in SUBSET Unprocessed :
            Cardinality(rows) = Min(limit, Cardinality(Unprocessed))}

\* process_all_calls: fetch_unprocessed_calls(limit), then one task per call
FetchUnprocessedCalls ==
    /\ pr["batch"].pc = "idle"
    /\ pr["batch"].fetches < MaxFetches
    /\ \E limit \in Limits : \E rows \in FetchResults(limit) :
          pr' = [pr EXCEPT !["batch"] =
                    [@ EXCEPT !.pc = "tasks", !.fetches = @ + 1, !.limit = limit,
                              !.fetched = rows, !.queue = Ordered(rows),
                              !.results = IdleProcessor.results]]
    /\ UNCHANGED <<documents, document_chunks, st, em, up, qa, ck, pd, an, calls, call_analytics, tr>>

\* run_processor --call-id, run once: fetch_call_by_id, then process_call
\* for that call whatever its processed flag
FetchCallById ==
    /\ pr["single"].pc = "idle"
    /\ pr["single"].fetches = 0
    /\ \E c \in CallIds :
          pr' = [pr EXCEPT !["single"] =
                    [@ EXCEPT !.pc = "tasks", !.fetches = @ + 1,
                              !.fetched = {c}, !.queue = <<c>>]]
    /\ UNCHANGED <<documents, document_chunks, st, em, up, qa, ck, pd, an, calls, call_analytics, tr>>

\* `except Exception`: process_call returns success=False and the next
\* task runs
ProcessCallFailed(p) ==
    [pr EXCEPT ![p] = [@ EXCEPT !.pc = "tasks", !.queue = Tail(@), !.existing = FALSE,
                                !.results[Head(pr[p].queue)] = "failure"]]

\* process_call up to step 5: download, transcription and the three analysis
\* requests, any of which may raise
ProcessCallAnalyse(p) ==
    /\ pr[p].pc = "tasks"
    /\ pr[p].queue # <<>>
    /\ \E ok \in BOOLEAN :
          pr' = IF ok
                THEN [pr EXCEPT ![p].pc = "check"]
                ELSE ProcessCallFailed(p)
    /\ UNCHANGED <<documents, document_chunks, st, em, up, qa, ck, pd, an, calls, call_analytics, tr>>

\* existing_record = call_analytics.select('*').eq('call_id', call_id)
ProcessCallCheck(p) ==
    /\ pr[p].pc = "check"
    /\ \E ok \in BOOLEAN :
          pr' = IF ok
                THEN [pr EXCEPT ![p] = [@ EXCEPT !.pc = "write", !.existing =
                        \E i \in 1..Len(call_analytics) :
                            call_analytics[i].call_id = Head(pr[p].queue)]]
                ELSE ProcessCallFailed(p)
    /\ UNCHANGED <<documents, document_chunks, st, em, up, qa, ck, pd, an, calls, call_analytics, tr>>

\* update(analytics_data).eq('call_id', call_id): every record of the call
\* gets this run's data
UpdateAnalytics(p, c) ==
    [i \in 1..Len(call_analytics) |->
        IF call_analytics[i].call_id = c
        THEN [call_id |-> c, written_by |-> p]
        ELSE call_analytics[i]]

\* insert(analytics_data)
InsertAnalytics(p, c) ==
    Append(call_analytics, [call_id |-> c, written_by |-> p])

\* `if existing_record.data:` update, else insert; either may raise
ProcessCallWrite(p) ==
    /\ pr[p].pc = "write"
    /\ \E ok \in BOOLEAN :
          IF ok
          THEN /\ call_analytics' = IF pr[p].existing
                                    THEN UpdateAnalytics(p, Head(pr[p].queue))
                                    ELSE InsertAnalytics(p, Head(pr[p].queue))
               /\ pr' = [pr EXCEPT ![p].pc = "mark"]
          ELSE /\ call_analytics' = call_analytics
               /\ pr' = ProcessCallFailed(p)
    /\ UNCHANGED <<documents, document_chunks, st, em, up, qa, ck, pd, an, calls, tr>>

\* calls.update({'processed': True}).eq('id', call_id), then success=True
ProcessCallMark(p) ==
    /\ pr[p].pc = "mark"
    /\ \E ok \in BOOLEAN :
          IF ok
          THEN /\ calls' = [calls EXCEPT ![Head(pr[p].queue)].processed = TRUE]
               /\ pr' = [pr EXCEPT ![p] =
                            [@ EXCEPT !.pc = "tasks", !.queue = Tail(@), !.existing = FALSE,
                                      !.results[Head(pr[p].queue)] = "success"]]
          ELSE /\ calls' = calls
               /\ pr' = ProcessCallFailed(p)
    /\ UNCHANGED <<documents, document_chunks, st, em, up, qa, ck, pd, an, call_analytics, tr>>

\* every task has returned: the process ends
ProcessorReturn(p) ==
    /\ pr[p].pc = "tasks"
    /\ pr[p].queue = <<>>
    /\ pr' = [pr EXCEPT ![p].pc = "idle"]
    /\ UNCHANGED <<documents, document_chunks, st, em, up, qa, ck, pd, an, calls, call_analytics, tr>>

\* ------------------------- ElevenLabsTranscriptionService._process_response
SpeakerIds == {"speaker_0", "speaker_1"}

\* speaker_id.replace("speaker_", "Speaker ")
FormatSpeaker(speaker_id) ==
    IF speaker_id = "speaker_0" THEN "Speaker 0" ELSE "Speaker 1"

\* response.words: item i of the response is a word or a spacing, said by
\* one of the speakers, lasting from 2i-2 to 2i-1, with text i
ResponseWord(i, type, speaker_id) ==
    [type |-> type, speaker_id |-> speaker_id, start |-> 2 * i - 2,
     end |-> 2 * i - 1, text |-> i]

Responses ==
    UNION {{[i \in 1..n |-> ResponseWord(i, types[i], speakers[i])] :
                types \in [1..n -> {"word", "spacing"}],
                speakers \in [1..n -> SpeakerIds]} :
              n \in 0..MaxResponseWords}

\* [word for word in response.words if word.type != 'spacing']
RECURSIVE NonSpacing(_)
NonSpacing(items) ==
    IF items = <<>> THEN <<>>
    ELSE (IF Head(items).type # "spacing" THEN <<Head(items)>> ELSE <<>>)
            \o NonSpacing(Tail(items))

\* a new current_segment from a word; text is kept as the list of the word
\* texts that " ".join and strip write out
NewSegment(word) ==
    [startTime |-> word.start, endTime |-> word.end, text |-> <<word.text>>,
     speaker |-> word.speaker_id]

\* extending the text without moving endTime
ExtendKeepEnd(current_segment, word) ==
    [current_segment EXCEPT !.text = Append(@, word.text)]

\* current_segment["text"] += " " + word.text; endTime = word.end
Extend(current_segment, word) ==
    [current_segment EXCEPT !.text = Append(@, word.text), !.endTime = word.end]

\* `for word in words[1:]`, from word i on, then the append of the last
\* segment
RECURSIVE SegmentLoop(_, _, _, _)
SegmentLoop(words, i, segments, current_segment) ==
    IF i > Len(words) THEN Append(segments, current_segment)
    ELSE IF words[i].speaker_id = current_segment.speaker
         THEN SegmentLoop(words, i + 1, segments, Extend(current_segment, words[i]))
         ELSE SegmentLoop(words, i + 1, Append(segments, current_segment),
                          NewSegment(words[i]))

_process_response(response_words) ==
    LET words == NonSpacing(response_words)
    IN  IF words = <<>> THEN <<>>
        ELSE LET segments == SegmentLoop(words, 2, <<>>, NewSegment(words[1]))
             IN  [k \in 1..Len(segments) |->
                    [segments[k] EXCEPT !.speaker = FormatSpeaker(@)]]

IdleTranscript == [pc |-> "idle", words |-> <<>>, segments |-> <<>>]

ProcessResponse ==
    /\ tr.pc = "called"
    /\ tr' = [tr EXCEPT !.pc = "returned", !.segments = _process_response(tr.words)]
    /\ UNCHANGED <<documents, document_chunks, st, em, up, qa, ck, pd, an, calls, call_analytics, pr>>

\* ------------------------------------------------------- specifications
Init ==
    /\ documents = <<>>
    /\ document_chunks = <<>>
    /\ st = [c \in StoreCalls |-> IdleStore]
    /\ em = IdleEmbed
    /\ up = [u \in Uploads |-> IdleUpload]
    /\ qa = IdleQuery
    /\ tr = IdleTranscript
    /\ pr = IdleProcessors
    /\ call_analytics = IdleAnalytics
    /\ calls = IdleCalls
    /\ an = IdleAnalysis
    /\ ck = IdleChunk
    /\ pd = IdleProcess

\* store_document calls, interleaved
NextStore ==
    \/ \E c \in StoreCalls : StoreInsertDocument(c)
    \/ \E c \in StoreCalls : StoreInsertChunks(c)

SpecStore == Init /\ [][NextStore]_vars

\* upload_document requests and a create_embeddings call
NextUpload ==
    \/ EmbedBegin
    \/ EmbedChunk
    \/ EmbedReturn
    \/ \E u \in Uploads : UploadBegin(u)
    \/ \E u \in Uploads : UploadProcess(u)
    \/ \E u \in Uploads : UploadEmbedStore(u)

SpecUpload == Init /\ [][NextUpload]_vars

\* the tables after store_document calls 1..Len(ns) have each returned,
\* call d having stored ns[d] chunks
RECURSIVE StoredChunks(_, _)
StoredChunks(ns, d) ==
    IF d > Len(ns) THEN <<>>
    ELSE ChunksData(d, ChunksOf("direct", d, ns[d]), VectorsOf(d, ns[d]))
            \o StoredChunks(ns, d + 1)

InitQuery ==
    \E k \in 0..MaxStores :
      \E ns \in [1..k -> 0..MaxChunks] :
        /\ documents = [d \in 1..k |-> DocumentRow(d, TitleOf(d), NoUrl)]
        /\ document_chunks = StoredChunks(ns, 1)
        /\ st = [c \in StoreCalls |->
                    IF c <= k
                    THEN [pc |-> "returned", chunks |-> ChunksOf("direct", c, ns[c]),
                          embeddings |-> VectorsOf(c, ns[c]), document_id |-> c]
                    ELSE IdleStore]
        /\ em = IdleEmbed
        /\ up = [u \in Uploads |-> IdleUpload]
        /\ qa = IdleQuery
        /\ tr = IdleTranscript
        /\ pr = IdleProcessors
        /\ call_analytics = IdleAnalytics
        /\ calls = IdleCalls
        /\ an = IdleAnalysis
        /\ ck = IdleChunk
        /\ pd = IdleProcess

\* one search_similar_chunks or get_answer call against a populated store
NextQuery ==
    \/ QueryBegin
    \/ SearchEmbed
    \/ SearchRpc
    \/ SearchJoin
    \/ AnswerGenerate

SpecQuery == InitQuery /\ [][NextQuery]_vars

\* one call of _create_chunks or of create_chunks on any text, under any
\* configuration
InitChunk ==
    /\ documents = <<>>
    /\ document_chunks = <<>>
    /\ st = [c \in StoreCalls |-> IdleStore]
    /\ em = IdleEmbed
    /\ up = [u \in Uploads |-> IdleUpload]
    /\ qa = IdleQuery
    /\ tr = IdleTranscript
    /\ pr = IdleProcessors
    /\ call_analytics = IdleAnalytics
    /\ calls = IdleCalls
    /\ an = IdleAnalysis
    /\ pd = IdleProcess
    /\ \E cfg \in Configs :
          \/ \E words \in WordTexts(1) :
                ck = [IdleChunk EXCEPT !.pc = "called", !.fn = "_create_chunks",
                                       !.cfg = cfg, !.words = words]
          \/ \E text \in CharTexts :
                ck = [IdleChunk EXCEPT !.pc = "called", !.fn = "create_chunks",
                                       !.cfg = cfg, !.text = text]

NextChunk ==
    \/ CallCreateChunksWords
    \/ CallCreateChunksTokens

SpecChunk == InitChunk /\ [][NextChunk]_vars

\* one call of process_document on any file
InitProcess ==
    /\ documents = <<>>
    /\ document_chunks = <<>>
    /\ st = [c \in StoreCalls |-> IdleStore]
    /\ em = IdleEmbed
    /\ up = [u \in Uploads |-> IdleUpload]
    /\ qa = IdleQuery
    /\ tr = IdleTranscript
    /\ pr = IdleProcessors
    /\ call_analytics = IdleAnalytics
    /\ calls = IdleCalls
    /\ an = IdleAnalysis
    /\ ck = IdleChunk
    /\ \E cfg \in Configs, suffix \in FileSuffixes, parts \in FileParts :
          pd = [IdleProcess EXCEPT !.pc = "called", !.suffix = suffix,
                                   !.cfg = cfg, !.parts = parts]

NextProcess ==
    \/ ProcessPdf
    \/ ProcessDocx
    \/ ProcessText
    \/ ProcessUnsupported

SpecProcess == InitProcess /\ [][NextProcess]_vars

\* one request to an analysis endpoint
NextAnalysis ==
    \/ AnalysisBegin
    \/ AnalyzeEvents
    \/ SummarizeConversation
    \/ AnalyzeCallDetails

SpecAnalysis == Init /\ [][NextAnalysis]_vars

\* run_processor processes working on the calls table at the same time
NextCalls ==
    \/ FetchUnprocessedCalls
    \/ FetchCallById
    \/ \E p \in Processors : ProcessCallAnalyse(p)
    \/ \E p \in Processors : ProcessCallCheck(p)
    \/ \E p \in Processors : ProcessCallWrite(p)
    \/ \E p \in Processors : ProcessCallMark(p)
    \/ \E p \in Processors : ProcessorReturn(p)

SpecCalls == Init /\ [][NextCalls]_vars

\* one call of _process_response on any response
InitTranscript ==
    /\ documents = <<>>
    /\ document_chunks = <<>>
    /\ st = [c \in StoreCalls |-> IdleStore]
    /\ em = IdleEmbed
    /\ up = [u \in Uploads |-> IdleUpload]
    /\ qa = IdleQuery
    /\ ck = IdleChunk
    /\ pd = IdleProcess
    /\ an = IdleAnalysis
    /\ calls = IdleCalls
    /\ call_analytics = IdleAnalytics
    /\ pr = IdleProcessors
    /\ \E words \in Responses : tr = [IdleTranscript EXCEPT !.pc = "called", !.words = words]

NextTranscript == ProcessResponse

SpecTranscript == InitTranscript /\ [][NextTranscript]_vars

Next ==
    \/ NextStore \/ NextUpload \/ NextQuery \/ NextChunk \/ NextProcess
    \/ NextAnalysis \/ NextCalls \/ NextTranscript

Spec == Init /\ [][Next]_vars

\* ---------------------------------------------------------------- claims
\* rows of the two tables that belong to upload request u
UploadDocumentRows(u) == {i \in 1..Len(documents) : documents[i].source_url = u}

UploadChunkRows(u) ==
    {i \in 1..Len(document_chunks) :
        /\ document_chunks[i].content[1] = "upload"
        /\ document_chunks[i].content[2] = u}

\* C1: whenever store_document returns successfully, the number of chunk
\* rows persisted with the generated document_id equals the number of chunks
\* passed in, for every input (embeddings shorter than chunks included).
C1_SuccessMeansAllChunksStored ==
    \A c \in StoreCalls :
        st[c].pc = "returned" =>
            Cardinality(ChunkRowsOf(st[c].document_id)) = Len(st[c].chunks)

\* C2: a store_document call that failed (its chunk insert raised after the
\* document insert succeeded, or the document insert raised) leaves no
\* document row and no chunk row of that document persisted.
C2_FailureLeavesNoRows ==
    \A c \in StoreCalls :
        st[c].pc = "raised" =>
            /\ \A i \in 1..Len(documents) :
                   st[c].document_id # 0 => documents[i].id # st[c].document_id
            /\ st[c].document_id # 0 => ChunkRowsOf(st[c].document_id) = {}

\* C3: in upload_document, once the embedding step has failed store_document
\* is never called for the document and none of its document or chunk rows
\* is persisted (so no search can return a chunk of it); a create_embeddings
\* call that fails on any chunk, the last included, returns no embeddings.
C3_EmbeddingFailureStoresNothing ==
    /\ \A u \in Uploads :
          up[u].embed_failed =>
              /\ ~up[u].store_called
              /\ up[u].document_id = 0
              /\ UploadDocumentRows(u) = {}
              /\ UploadChunkRows(u) = {}
              /\ up[u].response # "success"
    /\ em.pc = "raised" => ~em.result.ok

\* C3 witness: an upload of several chunks has failed in its embedding
\* step, and a create_embeddings call has failed on the last of its chunks.
C3_Witness ==
    /\ \E u \in Uploads :
          /\ up[u].embed_failed
          /\ up[u].pc = "failed"
          /\ Len(up[u].chunks) >= 2
    /\ em.pc = "raised"
    /\ Len(em.chunks) >= 2
    /\ Len(em.embeddings) = Len(em.chunks) - 1

\* C4: an upload of a supported document in which no provider call failed
\* ends with the document stored (document row and one chunk row per chunk)
\* and the success response, having passed through uploaded and chunked.
C4_SupportedUploadEndsStored ==
    \A u \in Uploads :
        ( /\ up[u].pc \in {"failed", "success"}
          /\ up[u].ext \in ProcessableExtensions
          /\ up[u].stage # "metadata"
          /\ ~up[u].provider_failed )
        => /\ up[u].pc = "success"
           /\ up[u].stage = "stored"
           /\ up[u].response = "success"
           /\ Cardinality(UploadDocumentRows(u)) = 1
           /\ Cardinality(UploadChunkRows(u)) = Len(up[u].chunks)

\* C5: when the query-embedding call or the match_chunks call fails during
\* get_answer, the generation model is not called and get_answer ends in an
\* error, never in an answer with an empty sources list.
C5_SearchFailureFailsAnswer ==
    (qa.kind = "answer" /\ qa.failed_call \in {"embedding", "rpc"}) =>
        /\ qa.gen_calls = 0
        /\ qa.pc # "done"
        /\ qa.response # "HTTP 200"

\* C6: when the generation call fails after retrieval succeeded, get_answer
\* returns nothing (no answer, no sources) and the failure reaches the
\* caller, which answers HTTP 500.
C6_GenerationFailureReturnsNothing ==
    qa.gen_failed =>
        /\ qa.pc = "raised"
        /\ ~qa.result.ok
        /\ qa.result.value = <<>>
        /\ qa.response = "HTTP 500"

\* C6 witness: generation failed after the search had returned chunks.
C6_Witness ==
    /\ qa.gen_failed
    /\ qa.failed_call = "none"
    /\ qa.search.ok
    /\ Len(qa.search.value) >= 1

\* C7: for every successful get_answer call, sources has exactly one entry per
\* chunk search_similar_chunks returned, in the order returned and used for
\* the context block, each with that chunk's content, source, page and
\* similarity.
C7_SourcesFollowChunks ==
    qa.pc = "done" =>
        LET chunks == qa.search.value
            sources == qa.result.value.sources
        IN  /\ Len(sources) = Len(chunks)
            /\ Len(qa.context) = Len(chunks)
            /\ \A i \in 1..Len(chunks) :
                  /\ sources[i].content = chunks[i].content
                  /\ sources[i].source = chunks[i].source
                  /\ sources[i].page = chunks[i].page_number
                  /\ sources[i].similarity = chunks[i].similarity
                  /\ qa.context[i].content = chunks[i].content
                  /\ qa.context[i].source = chunks[i].source
                  /\ qa.context[i].page = chunks[i].page_number

\* C7 witness: a successful answer over two chunks of different documents
\* and different similarity.
C7_Witness ==
    /\ qa.pc = "done"
    /\ Len(qa.search.value) >= 2
    /\ qa.search.value[1].source # qa.search.value[2].source
    /\ qa.search.value[1].similarity # qa.search.value[2].similarity

\* C8: when search_similar_chunks returns zero chunks, get_answer calls the
\* generation model exactly once with an empty context block, and on success
\* returns the model's text as answer with an empty sources list.
C8_EmptyRetrievalStillGenerates ==
    ( /\ qa.kind = "answer"
      /\ qa.pc \in {"done", "raised"}
      /\ qa.search.ok
      /\ qa.search.value = <<>> )
    => /\ qa.gen_calls = 1
       /\ qa.context = <<>>
       /\ ~qa.gen_failed =>
             /\ qa.pc = "done"
             /\ qa.result.ok
             /\ qa.result.value.answer = qa.model_text
             /\ qa.model_text \in ModelTexts
             /\ qa.result.value.sources = <<>>

\* C8 witness: an answer returned although the rpc ran and matched nothing
\* in a non-empty store.
C8_Witness ==
    /\ qa.pc = "done"
    /\ qa.search.value = <<>>
    /\ qa.failed_call = "none"
    /\ qa.match_count > 0
    /\ Len(document_chunks) >= 1

\* C9: a query with a non-positive count is rejected before any embedding,
\* storage or generation call is issued, and never returns normally.
C9_NonPositiveCountRejected ==
    (qa.pc # "idle" /\ qa.match_count <= 0) =>
        /\ qa.embed_calls = 0
        /\ qa.rpc_calls = 0
        /\ qa.select_calls = 0
        /\ qa.gen_calls = 0
        /\ qa.pc \notin {"searched", "done"}

\* C10: when no stored chunk has similarity at or above match_threshold (an
\* empty store included), search_similar_chunks returns an empty sequence
\* and does not raise.
C10_NoMatchReturnsEmpty ==
    ( /\ qa.pc \in {"searched", "done", "raised"}
      /\ \A i \in 1..Len(document_chunks) :
            Similarity(qa.query, document_chunks[i].embedding) < qa.match_threshold )
    => /\ qa.search.ok
       /\ qa.search.value = <<>>

\* C10 witness: the rpc ran with a positive match_count against a non-empty
\* store in which no chunk clears the threshold, and the search returned.
C10_Witness ==
    /\ qa.pc = "searched"
    /\ qa.kind = "search"
    /\ qa.failed_call = "none"
    /\ qa.rpc_calls = 1
    /\ qa.match_count > 0
    /\ Len(document_chunks) >= 2
    /\ \A i \in 1..Len(document_chunks) :
          Similarity(qa.query, document_chunks[i].embedding) < qa.match_threshold

\* C11: the sequence search_similar_chunks returns is in non-increasing
\* similarity order, every element's similarity is at least match_threshold
\* and it has at most match_count elements (none for a non-positive count);
\* the join with the document rows keeps the rows of match_chunks, their
\* order and their similarity.
C11_RankedAboveThreshold ==
    (qa.pc \in {"searched", "done", "raised"} /\ qa.search.ok) =>
        LET r == qa.search.value
        IN  /\ \A i \in 1..(Len(r) - 1) : r[i].similarity >= r[i + 1].similarity
            /\ \A i \in 1..Len(r) : r[i].similarity >= qa.match_threshold
            /\ Len(r) <= (IF qa.match_count > 0 THEN qa.match_count ELSE 0)
            /\ r # <<>> =>
                  /\ Len(r) = Len(qa.rows)
                  /\ \A i \in 1..Len(r) :
                        /\ r[i].id = qa.rows[i].id
                        /\ r[i].similarity = qa.rows[i].similarity
                        /\ r[i].similarity =
                              Similarity(qa.query, document_chunks[r[i].id].embedding)

\* C11 witness: a search returned two chunks of different similarity out of
\* a store holding more chunks than it returned.
C11_Witness ==
    /\ qa.pc = "searched"
    /\ qa.kind = "search"
    /\ Len(qa.search.value) = 2
    /\ qa.search.value[1].similarity > qa.search.value[2].similarity
    /\ Len(document_chunks) > 2

\* C12: when the stored chunk vectors and the query vector do not all share
\* one dimension, a search whose query was embedded ends in an error, not in
\* a returned sequence.
C12_MixedDimensionsRefused ==
    ( /\ qa.pc \in {"searched", "done", "raised"}
      /\ qa.failed_call # "embedding"
      /\ \E i \in 1..Len(document_chunks) :
            Dimension(document_chunks[i].embedding) # Dimension(qa.query) )
    => ~qa.search.ok

\* C13: across the chunks process_document returns for one document, a PDF
\* of several pages included, chunk_number strictly increases in the order
\* the chunks are returned
C13_ChunkNumbersStrictlyIncrease ==
    pd.pc = "returned" =>
        \A i \in 1..Len(pd.chunks) : \A j \in 1..Len(pd.chunks) :
            i < j => pd.chunks[i].chunk_number < pd.chunks[j].chunk_number

\* the words a chunk repeats from the chunk before it: the longest tail of
\* `previous` that `current` begins with
OverlapLen(previous, current) ==
    LET ns == {n \in 0..Min(Len(previous), Len(current)) :
                  SubSeq(previous, Len(previous) - n + 1, Len(previous))
                      = SubSeq(current, 1, n)}
    IN  CHOOSE n \in ns : \A m \in ns : m <= n

\* the contents of chunks k.. in order, each without the words it repeats
\* from the chunk before it
RECURSIVE Deduplicated(_, _)
Deduplicated(chunks, k) ==
    IF k > Len(chunks) THEN <<>>
    ELSE (IF k = 1 THEN chunks[k].content
          ELSE SubSeq(chunks[k].content,
                      OverlapLen(chunks[k - 1].content, chunks[k].content) + 1,
                      Len(chunks[k].content)))
            \o Deduplicated(chunks, k + 1)

\* C14: the chunks of _create_chunks, each after the first without the words
\* it repeats from the previous chunk, concatenate to the words of the text
C14_ChunksReconstructWords ==
    (ck.pc = "returned" /\ ck.fn = "_create_chunks") =>
        Deduplicated(ck.chunks, 1) = ck.words

C14_Witness ==
    /\ ck.pc = "returned"
    /\ ck.fn = "_create_chunks"
    /\ ck.cfg.chunk_overlap >= 1
    /\ Len(ck.chunks) >= 3
    /\ Len(ck.chunks[1].content) > ck.cfg.chunk_overlap
    /\ Len(ck.chunks[2].content) > ck.cfg.chunk_overlap

\* the tokens of the contents of chunks k.. in chunk_number order, each
\* chunk after the first without its leading chunk_overlap tokens
RECURSIVE Stripped(_, _, _)
Stripped(chunks, chunk_overlap, k) ==
    IF k > Len(chunks) THEN <<>>
    ELSE LET tokens == Encode(chunks[k].content)
         IN  (IF k = 1 THEN tokens
              ELSE SubSeq(tokens, chunk_overlap + 1, Len(tokens)))
                \o Stripped(chunks, chunk_overlap, k + 1)

\* C15: the chunks of create_chunks in chunk_number order, each after the
\* first stripped of its leading chunk_overlap tokens, concatenate to the
\* token stream of the text
C15_ChunksReconstructTokens ==
    (ck.pc = "returned" /\ ck.fn = "create_chunks") =>
        /\ \A k \in 1..Len(ck.chunks) : ck.chunks[k].chunk_number = k
        /\ Stripped(ck.chunks, ck.cfg.chunk_overlap, 1) = Encode(ck.text)

\* C16: a non-empty text of fewer than chunk_size tokens gives exactly one
\* chunk of create_chunks
C16_ShortTextOneChunk ==
    ( /\ ck.pc = "returned"
      /\ ck.fn = "create_chunks"
      /\ ck.text # <<>>
      /\ Len(Encode(ck.text)) < ck.cfg.chunk_size )
    => Len(ck.chunks) = 1

\* C17: a text of N tokens gives ceil(N / (chunk_size - chunk_overlap))
\* chunks of create_chunks
C17_ChunkCount ==
    (ck.pc = "returned" /\ ck.fn = "create_chunks") =>
        LET n == Len(Encode(ck.text))
            step == ck.cfg.chunk_size - ck.cfg.chunk_overlap
        IN  Len(ck.chunks) = (n + step - 1) \div step

C17_Witness ==
    /\ ck.pc = "returned"
    /\ ck.fn = "create_chunks"
    /\ ck.cfg.chunk_overlap >= 1
    /\ Len(ck.chunks) >= 2
    /\ Len(Encode(ck.text)) % (ck.cfg.chunk_size - ck.cfg.chunk_overlap) # 0

\* C18: an empty text gives no chunk and no error in both chunkers, and no
\* chunk either of them emits has empty content
C18_EmptyTextNoChunks ==
    ck.pc # "idle" =>
        /\ ck.pc \in {"called", "returned"}
        /\ ck.pc = "returned" =>
              /\ (ck.fn = "_create_chunks" /\ ck.words = <<>>) => ck.chunks = <<>>
              /\ (ck.fn = "create_chunks" /\ ck.text = <<>>) => ck.chunks = <<>>
              /\ \A k \in 1..Len(ck.chunks) : ck.chunks[k].content # <<>>

C18_Witness ==
    /\ ck.pc = "returned"
    /\ ck.fn = "_create_chunks"
    /\ ck.words = <<>>
    /\ ck.chunks = <<>>

\* C19: process_document raises the unsupported-format error, with no
\* chunks, exactly when the extension is outside {pdf, docx, doc, txt, md}
C19_UnsupportedExactlyOutsideSet ==
    pd.pc \in {"returned", "raised"} =>
        /\ pd.pc = "raised" <=>
              Lower(pd.suffix) \notin {".pdf", ".docx", ".doc", ".txt", ".md"}
        /\ pd.pc = "raised" => pd.chunks = <<>>

\* C20: total_pages stays null and every page_number is null after a
\* non-paginated format; for a PDF total_pages is the page count and the
\* page numbers are 1-based
C20_TotalPagesOnlyForPdf ==
    pd.pc = "returned" =>
        IF Lower(pd.suffix) = ".pdf"
        THEN /\ pd.total_pages = Len(pd.parts)
             /\ \A k \in 1..Len(pd.chunks) :
                   /\ pd.chunks[k].page_number \in 1..Len(pd.parts)
                   /\ \A i \in 1..Len(pd.chunks[k].content) :
                         pd.chunks[k].content[i].page = pd.chunks[k].page_number
        ELSE /\ pd.total_pages = NoTotal
             /\ \A k \in 1..Len(pd.chunks) : pd.chunks[k].page_number = NoPage

\* the chunk rows made from the chunks call c was given, in table order
RECURSIVE RowsOfCall(_, _)
RowsOfCall(c, i) ==
    IF i > Len(document_chunks) THEN <<>>
    ELSE (IF document_chunks[i].content[2] = c THEN <<document_chunks[i]>> ELSE <<>>)
            \o RowsOfCall(c, i + 1)

\* the chunk rows tagged with document id d, in table order
RECURSIVE RowsTagged(_, _)
RowsTagged(d, i) ==
    IF i > Len(document_chunks) THEN <<>>
    ELSE (IF document_chunks[i].document_id = d THEN <<document_chunks[i]>> ELSE <<>>)
            \o RowsTagged(d, i + 1)

\* C21: under any interleaving of store_document calls, every chunk row
\* carries the document_id of the document row its own call inserted, the
\* calls' document ids are distinct, and each call's rows hold its own
\* chunks, vectors and title untouched by the other calls
C21_CallsAreIndependent ==
    /\ \A c \in StoreCalls : st[c].document_id # 0 =>
          /\ st[c].document_id \in 1..Len(documents)
          /\ documents[st[c].document_id] =
                DocumentRow(st[c].document_id, TitleOf(c), NoUrl)
          /\ \A d \in StoreCalls : (d # c) => st[d].document_id # st[c].document_id
    /\ \A c \in StoreCalls :
          /\ RowsOfCall(c, 1) = RowsTagged(st[c].document_id, 1)
          /\ RowsOfCall(c, 1) =
                (IF st[c].pc = "returned"
                 THEN ChunksData(st[c].document_id, st[c].chunks, st[c].embeddings)
                 ELSE <<>>)

C21_Witness ==
    /\ \A c \in StoreCalls : st[c].pc = "returned"
    /\ Len(document_chunks) >= 2
    /\ document_chunks[1].document_id > document_chunks[Len(document_chunks)].document_id

\* C22: when the model's text does not parse as JSON, each analysis
\* endpoint answers 200 with its default payload (no key events, an empty
\* summary, sentiment 3.0 with no topics, no flags and call_type other) and
\* never an error response
C22_MalformedJsonGivesDefault ==
    ( /\ an.pc = "done"
      /\ an.completion = "returned"
      /\ an.reply.body.type \in {"malformed", "empty"} )
    => /\ an.response.status = 200
       /\ an.endpoint = "analyze_events" =>
             an.response.body = [segments |-> an.segments, key_events |-> <<>>]
       /\ an.endpoint = "summarize_conversation" =>
             an.response.body = [segments |-> an.segments, summary |-> ""]
       /\ an.endpoint = "analyze_call_details" =>
             an.response.body = [sentiment_score |-> 30, topics |-> <<>>,
                                 flags |-> <<>>, call_type |-> "other"]

C22_Witness ==
    /\ an.pc = "done"
    /\ an.completion = "returned"
    /\ an.reply.body.type = "malformed"
    /\ an.endpoint = "analyze_call_details"
    /\ an.response.status = 200
    /\ an.response.body.call_type = "other"

\* C23: chunk k of create_chunks is the decoding of the tokens from
\* (k-1)*(chunk_size - chunk_overlap) up to chunk_size further, clipped to
\* the text: between 1 and chunk_size tokens, numbered k, and the last
\* window, however short, is emitted and reaches the end of the text
C23_WindowOfChunk ==
    (ck.pc = "returned" /\ ck.fn = "create_chunks") =>
        LET tokens == Encode(ck.text)
            step == ck.cfg.chunk_size - ck.cfg.chunk_overlap
            first(k) == (k - 1) * step + 1
            last(k) == Min((k - 1) * step + ck.cfg.chunk_size, Len(tokens))
        IN  /\ \A k \in 1..Len(ck.chunks) :
                  /\ last(k) - first(k) + 1 \in 1..ck.cfg.chunk_size
                  /\ ck.chunks[k].content = Decode(SubSeq(tokens, first(k), last(k)))
                  /\ ck.chunks[k].chunk_number = k
            /\ tokens # <<>> =>
                  /\ ck.chunks # <<>>
                  /\ last(Len(ck.chunks)) = Len(tokens)
                  /\ first(Len(ck.chunks)) + step > Len(tokens)

C23_Witness ==
    /\ ck.pc = "returned"
    /\ ck.fn = "create_chunks"
    /\ ck.cfg.chunk_overlap >= 1
    /\ Len(ck.chunks) >= 3
    /\ Len(Encode(ck.chunks[Len(ck.chunks)].content)) < ck.cfg.chunk_size
    /\ Len(Encode(ck.chunks[1].content)) = ck.cfg.chunk_size

\* C24: for consecutive chunks i, i+1 of create_chunks, the leading
\* chunk_overlap tokens of chunk i+1 are the trailing chunk_overlap tokens
\* of chunk i (read on the token windows the chunks are decoded from)
C24_OverlapIsShared ==
    (ck.pc = "returned" /\ ck.fn = "create_chunks") =>
        LET windows == TokenWindows(ck.cfg, Encode(ck.text))
            overlap == ck.cfg.chunk_overlap
        IN  \A i \in 1..(Len(windows) - 1) :
               /\ Len(windows[i + 1]) >= overlap
               /\ Len(windows[i]) >= overlap
               /\ SubSeq(windows[i + 1], 1, overlap) =
                     SubSeq(windows[i], Len(windows[i]) - overlap + 1, Len(windows[i]))

\* C25: every chunk of _create_chunks is bounded by chunk_size: the sum over
\* its words of len(word) + 1 is below chunk_size plus the size of its last
\* word
C25_ChunkSizeBounded ==
    (ck.pc = "returned" /\ ck.fn = "_create_chunks") =>
        \A k \in 1..Len(ck.chunks) :
            LET content == ck.chunks[k].content
            IN  SizeOf(content) < ck.cfg.chunk_size + content[Len(content)].len + 1

\* C26: every element search_similar_chunks returns has a source, the title
\* of the document row whose id is the chunk's document_id, and a
\* similarity, and get_answer reads both for every chunk it lists
C26_EveryChunkHasSource ==
    /\ (qa.pc \in {"searched", "done", "raised"} /\ qa.search.ok) =>
          \A i \in 1..Len(qa.search.value) :
              LET chunk == qa.search.value[i]
              IN  /\ chunk.has_source
                  /\ chunk.document_id \in 1..Len(documents)
                  /\ chunk.source = documents[chunk.document_id].title
                  /\ chunk.similarity \in 0..10
    /\ (qa.pc = "done" /\ qa.result.ok) =>
          \A i \in 1..Len(qa.result.value.sources) :
              /\ qa.result.value.sources[i].source =
                    documents[qa.search.value[i].document_id].title
              /\ qa.result.value.sources[i].similarity = qa.search.value[i].similarity

C26_Witness ==
    /\ qa.pc = "done"
    /\ qa.result.ok
    /\ Len(qa.result.value.sources) = 2
    /\ qa.result.value.sources[1].source # qa.result.value.sources[2].source

\* C27: the model search_similar_chunks embeds the query with is the model
\* create_embeddings embeds the stored chunks with
C27_SameEmbeddingModel ==
    /\ em.model # "none" => em.model = IngestionEmbeddingModel
    /\ qa.embedding_model # "none" => qa.embedding_model = IngestionEmbeddingModel

\* the analytics records of call c
AnalyticsOf(c) == {i \in 1..Len(call_analytics) : call_analytics[i].call_id = c}

\* a step that sets the processed flag of a call is the last step of a
\* process_call run for that call which reports success, taken when the
\* call's analytics record is in the table
FlagSetAfterAnalytics ==
    \A c \in CallIds :
        (~calls[c].processed /\ calls'[c].processed) =>
            \E p \in Processors :
                /\ pr[p].pc = "mark"
                /\ Head(pr[p].queue) = c
                /\ AnalyticsOf(c) # {}
                /\ pr'[p].results[c] = "success"

\* a step in which a process_call run ends with success=False leaves every
\* processed flag as it was
FailureLeavesFlag ==
    \A p \in Processors :
        ( /\ pr[p].pc \in {"tasks", "check", "write", "mark"}
          /\ pr[p].queue # <<>>
          /\ pr'[p].queue = Tail(pr[p].queue)
          /\ pr'[p].results[Head(pr[p].queue)] = "failure" )
        => calls' = calls

\* a fetch_unprocessed_calls step, with one of the given limits, returns
\* every call whose last run in this process failed and whose flag is false
FailedCallsFetchedAgain(limits) ==
    ( /\ pr["batch"].pc = "idle"
      /\ pr'["batch"].pc = "tasks"
      /\ pr'["batch"].limit \in limits )
    => \A c \in CallIds :
          (pr["batch"].results[c] = "failure" /\ ~calls[c].processed) =>
              c \in pr'["batch"].fetched

\* C28 as stated: the flag is set only after the run's analytics write, a
\* failed run reports success=False and leaves the flag false, and the next
\* fetch_unprocessed_calls, whatever its limit, returns the call again
C28_FailedCallFetchedAgain ==
    /\ [](\A c \in CallIds : calls[c].processed => AnalyticsOf(c) # {})
    /\ [][/\ FlagSetAfterAnalytics
          /\ FailureLeavesFlag
          /\ FailedCallsFetchedAgain(Limits)]_vars

\* C28 amended: as above, the call being returned again by the next
\* fetch_unprocessed_calls that is called without a limit
C28_FailedCallFetchedAgainWithoutLimit ==
    /\ [](\A c \in CallIds : calls[c].processed => AnalyticsOf(c) # {})
    /\ [][/\ FlagSetAfterAnalytics
          /\ FailureLeavesFlag
          /\ FailedCallsFetchedAgain({NoLimit})]_vars

\* C28 witness: the batch process wrote a call's analytics, failed to mark
\* it, and its next fetch, without a limit, returned the call again
C28_Witness ==
    /\ pr["single"].fetches = 0
    /\ pr["batch"].fetches = 2
    /\ pr["batch"].pc = "tasks"
    /\ pr["batch"].limit = NoLimit
    /\ \E c \in pr["batch"].fetched : AnalyticsOf(c) # {} /\ ~calls[c].processed

\* C29: after any sequence or interleaving of process_call runs the table
\* call_analytics holds at most one record per call_id
C29_OneAnalyticsRecordPerCall ==
    \A c \in CallIds : Cardinality(AnalyticsOf(c)) <= 1

\* the positions in `words` of the words segment k holds, given the
\* segments before it hold the words before them
RECURSIVE WordsBefore(_, _)
WordsBefore(segments, k) ==
    IF k = 1 THEN 0 ELSE WordsBefore(segments, k - 1) + Len(segments[k - 1].text)

\* C30: _process_response groups the non-spacing words, in input order,
\* into maximal contiguous runs of one speaker, each with its first word's
\* start and its last word's end; no non-spacing word gives the empty list
C30_SegmentsAreSpeakerRuns ==
    tr.pc = "returned" =>
        LET words == NonSpacing(tr.words)
            segments == tr.segments
            first(k) == WordsBefore(segments, k) + 1
            last(k) == WordsBefore(segments, k) + Len(segments[k].text)
        IN  /\ words = <<>> <=> segments = <<>>
            /\ segments # <<>> => last(Len(segments)) = Len(words)
            /\ \A k \in 1..Len(segments) :
                  /\ segments[k].text # <<>>
                  /\ last(k) <= Len(words)
                  /\ \A j \in first(k)..last(k) :
                        /\ segments[k].text[j - first(k) + 1] = words[j].text
                        /\ FormatSpeaker(words[j].speaker_id) = segments[k].speaker
                  /\ segments[k].startTime = words[first(k)].start
                  /\ segments[k].endTime = words[last(k)].end
            /\ \A k \in 1..(Len(segments) - 1) :
                  segments[k].speaker # segments[k + 1].speaker

C30_Witness ==
    /\ tr.pc = "returned"
    /\ Len(tr.segments) = 2
    /\ Len(tr.segments[1].text) = 2
    /\ Len(tr.words) = 4
    /\ tr.segments[1].endTime - tr.segments[1].startTime > 3

====
